---- MODULE Spec2Model ----
(***************************************************************************)
(* Model of the RAG pipeline of src/database.py (ingestion) and            *)
(* src/query.py (query).  The persistent Chroma store is a function from   *)
(* record id to stored record; an ingestion run is a process that walks    *)
(* through main(): clear_database, load_documents_from_directory,          *)
(* split_documents, add_to_chroma.                                         *)
(***************************************************************************)
EXTENDS Integers, Sequences, FiniteSets, TLC

VARIABLES
    store,          \* the persistent vector store: id -> stored record
    pc,             \* pc[r]: position of ingestion run r inside main()
    args,           \* args[r]: parsed command line and the source directory the run sees
    chunks,         \* chunks[r]: value of the local `documents`, then `chunks`
    existing_ids,   \* existing_ids[r]: add_to_chroma's local set
    new_chunks,     \* new_chunks[r]: add_to_chroma's local list
    out,            \* out[r]: what run r printed / how it ended
    hist,           \* history: the last finished run
    nRuns,          \* number of runs started so far
    qpc,            \* position of the query process inside query_rag
    results,        \* query_rag: the ranked list returned by the similarity search
    context_text,   \* query_rag: the retrieved texts joined into the prompt context
    sources,        \* query_rag: the printed Sources list
    searched,       \* history: the store as the search saw it
    idsIn,          \* input of a direct call of calculate_chunk_ids
    idsOut          \* its result

vars == << store, pc, args, chunks, existing_ids, new_chunks, out, hist, nRuns,
           qpc, results, context_text, sources, searched, idsIn, idsOut >>

ingestVars == << store, pc, args, chunks, existing_ids, new_chunks, out, hist, nRuns >>
queryVars == << qpc, results, context_text, sources, searched >>
idVars == << idsIn, idsOut >>

----------------------------------------------------------------------------
(* Bounds *)

MaxPages == 2       \* pages per PDF file
MaxChunks == 2      \* chunks the splitter cuts out of one page
MaxRuns == 2        \* ingestion runs started in one behaviour
MaxLen == 4         \* length of a chunk list handed to calculate_chunk_ids directly
MaxStored == 6      \* a query is asked of a store of at most this many records

(* Program constants *)

DATA_PATH == "books"
TOP_K == 5

Files == { DATA_PATH \o "/a.pdf", DATA_PATH \o "/b.pdf" }
Texts == { "old", "new" }

----------------------------------------------------------------------------
(* Helpers on sequences *)

Range(s) == { s[i] : i \in DOMAIN s }

RECURSIVE Flatten(_)
Flatten(ss) == IF ss = << >> THEN << >> ELSE Head(ss) \o Flatten(Tail(ss))

RECURSIVE SelectIdx(_, _, _)
\* the subsequence of s at the indexes i (in order) for which keep[i]
SelectIdx(s, keep, i) ==
    IF i > Len(s) THEN << >>
    ELSE (IF keep[i] THEN << s[i] >> ELSE << >>) \o SelectIdx(s, keep, i + 1)

----------------------------------------------------------------------------
(* calculate_chunk_ids *)

\* f"{source}:{page}"
PageId(chunk) == chunk.source \o ":" \o ToString(chunk.page)

\* indexes counted from 1
ChunkIdOneBased(page_id, index) == page_id \o ":" \o ToString(index + 1)

\* f"{current_page_id}:{current_chunk_index}"
ChunkId(page_id, index) == page_id \o ":" \o ToString(index)

WithId(chunk, id) ==
    [source |-> chunk.source, page |-> chunk.page, text |-> chunk.text, id |-> id]

\* a counter that is never reset when the page changes
NextIndexNoReset(current_page_id, last_page_id, current_chunk_index) ==
    IF last_page_id = << >> THEN 0 ELSE current_chunk_index + 1

\* a counter that is never incremented
NextIndexStuck(current_page_id, last_page_id, current_chunk_index) == 0

\* One iteration of the loop: the new current_chunk_index.  last_page_id is
\* << >> for None and << p >> for the string p.
NextIndex(current_page_id, last_page_id, current_chunk_index) ==
    IF << current_page_id >> = last_page_id
    THEN current_chunk_index + 1
    ELSE 0

RECURSIVE AssignFromGlobal(_, _, _, _)
\* an assigner that remembers every page it has seen: the index of a chunk is
\* the number of earlier chunks of its page
AssignFromGlobal(cs, i, last_page_id, current_chunk_index) ==
    IF i > Len(cs) THEN << >>
    ELSE LET current_page_id == cs[i].source \o ":" \o ToString(cs[i].page)
             idx == Cardinality({ j \in 1..(i - 1) :
                        cs[j].source = cs[i].source /\ cs[j].page = cs[i].page })
         IN  << [source |-> cs[i].source, page |-> cs[i].page, text |-> cs[i].text,
                 id |-> current_page_id \o ":" \o ToString(idx)] >>
             \o AssignFromGlobal(cs, i + 1, << current_page_id >>, idx)

RECURSIVE AssignFrom(_, _, _, _)
AssignFrom(cs, i, last_page_id, current_chunk_index) ==
    IF i > Len(cs) THEN << >>
    ELSE LET current_page_id == PageId(cs[i])
             idx == NextIndex(current_page_id, last_page_id, current_chunk_index)
         IN  << WithId(cs[i], ChunkId(current_page_id, idx)) >>
             \o AssignFrom(cs, i + 1, << current_page_id >>, idx)

calculate_chunk_ids(cs) == AssignFrom(cs, 1, << >>, 0)

IdsOf(cs) == [ i \in DOMAIN cs |-> cs[i].id ]

----------------------------------------------------------------------------
(* The source directory and the loader *)

\* A source directory: absent, or a directory holding the PDF files `pdfs`
\* (each with `pages` pages, each page cut into `chunks` chunks by the
\* splitter, all carrying the text version `text`) and, when `other`, a file
\* that is not a PDF.
MissingDir ==
    [exists |-> FALSE, other |-> FALSE, pdfs |-> {}, pages |-> 1, chunks |-> 0, text |-> "old"]

NoPdfDirs ==
    { [exists |-> TRUE, other |-> o, pdfs |-> {}, pages |-> 1, chunks |-> 0, text |-> "old"] :
        o \in BOOLEAN }

\* the page layouts tried: files of MaxPages pages, of one chunk or of
\* MaxChunks chunks each
Layouts ==
    { [pages |-> MaxPages, chunks |-> 1], [pages |-> MaxPages, chunks |-> MaxChunks] }

PdfDirs ==
    { [exists |-> TRUE, other |-> FALSE, pdfs |-> F, pages |-> l.pages, chunks |-> l.chunks,
       text |-> t] :
        F \in (SUBSET Files) \ {{}}, l \in Layouts, t \in Texts }

\* a PDF whose only page holds no text: the splitter cuts no chunk out of it
BlankPdfDir ==
    [exists |-> TRUE, other |-> FALSE, pdfs |-> { DATA_PATH \o "/a.pdf" }, pages |-> 1,
     chunks |-> 0, text |-> "old"]

\* PDF files next to a file that is not a PDF
MixedDir ==
    [exists |-> TRUE, other |-> TRUE, pdfs |-> Files, pages |-> 1, chunks |-> 1, text |-> "old"]

Directories == {MissingDir, BlankPdfDir, MixedDir} \cup NoPdfDirs \cup PdfDirs

\* os.listdir(directory_path)
ListDir(dir) == dir.pdfs \cup (IF dir.other THEN { DATA_PATH \o "/notes.txt" } ELSE {})

\* the orders in which the file system may enumerate the files of S
Orders(S) ==
    { o \in [1..Cardinality(S) -> S] : \A i, j \in DOMAIN o : o[i] = o[j] => i = j }

\* the text of the i-th piece the splitter cuts out of page p of file f
PieceText(dir, f, p, i) ==
    dir.text \o " text of " \o f \o " page " \o ToString(p) \o " part " \o ToString(i)

\* PyPDFLoader(file).load(): one Document per page, pages numbered from 0
LoadPdf(dir, f) ==
    [ n \in 1..dir.pages |->
        [source |-> f, page |-> n - 1,
         page_content |-> [ i \in 1..dir.chunks |-> PieceText(dir, f, n - 1, i) ]] ]

\* PyPDFDirectoryLoader(directory_path).load(): the PDF files only, in
\* enumeration order
LoaderLoad(dir, order) == Flatten([ k \in DOMAIN order |-> LoadPdf(dir, order[k]) ])

\* a loader that rejects every directory without a PDF file
load_documents_strict(dir, order) ==
    IF ~dir.exists
    THEN [error |-> "FileNotFoundError", documents |-> << >>]
    ELSE IF dir.pdfs = {}
    THEN [error |-> "ValueError: Directory is empty", documents |-> << >>]
    ELSE [error |-> "none", documents |-> LoaderLoad(dir, order)]

load_documents_from_directory(dir, order) ==
    IF ~dir.exists
    THEN [error |-> "FileNotFoundError", documents |-> << >>]
    ELSE IF ListDir(dir) = {}
    THEN [error |-> "ValueError: Directory is empty", documents |-> << >>]
    ELSE [error |-> "none", documents |-> LoaderLoad(dir, order)]

\* text_splitter.split_documents(documents): the pieces of every document, in
\* document order, each carrying a copy of the document's metadata
SplitDocument(doc) ==
    [ i \in DOMAIN doc.page_content |->
        [source |-> doc.source, page |-> doc.page, text |-> doc.page_content[i]] ]

split_documents(documents) ==
    IF documents = << >>
    THEN [error |-> "ValueError: No documents to split", chunks |-> << >>]
    ELSE [error |-> "none",
          chunks |-> Flatten([ k \in DOMAIN documents |-> SplitDocument(documents[k]) ])]

----------------------------------------------------------------------------
(* The store and add_to_chroma *)

EmptyStore == [ k \in {} |-> k ]

\* a record whose metadata carries the page key in place of the chunk id
StoredRecordPageKey(chunk) ==
    [page_content |-> chunk.text,
     metadata |-> [source |-> chunk.source, page |-> chunk.page,
                   id |-> chunk.source \o ":" \o ToString(chunk.page)]]

\* the record the store keeps for a chunk
StoredRecord(chunk) ==
    [page_content |-> chunk.text,
     metadata |-> [source |-> chunk.source, page |-> chunk.page, id |-> chunk.id]]

\* the last position of id k in the list ids
LastPos(ids, k) ==
    CHOOSE i \in DOMAIN ids : ids[i] = k /\ \A j \in DOMAIN ids : ids[j] = k => j <= i

\* an insert that replaces the collection by the submitted documents
add_documents_replace(db, docs, ids) ==
    [ k \in Range(ids) |-> StoredRecord(docs[LastPos(ids, k)]) ]

\* db.add_documents(docs, ids=ids): Chroma upserts every document under its id
add_documents(db, docs, ids) ==
    [ k \in DOMAIN db \cup Range(ids) |->
        IF k \in Range(ids) THEN StoredRecord(docs[LastPos(ids, k)]) ELSE db[k] ]

\* a read that finds no id
GetIdsNone(db) == {}

\* db.get(include=[])["ids"]
GetIds(db) == DOMAIN db

\* no filter: every chunk counts as new
NewChunksUnfiltered(chunks_with_ids, existing) == chunks_with_ids

\* the filter inverted: the chunks already stored are kept
NewChunksInverted(chunks_with_ids, existing) ==
    SelectIdx(chunks_with_ids,
              [ i \in DOMAIN chunks_with_ids |-> chunks_with_ids[i].id \in existing ], 1)

\* [chunk for chunk in chunks_with_ids if chunk.metadata["id"] not in existing_ids]
NewChunks(chunks_with_ids, existing) ==
    SelectIdx(chunks_with_ids,
              [ i \in DOMAIN chunks_with_ids |-> chunks_with_ids[i].id \notin existing ], 1)

----------------------------------------------------------------------------
(* Ingestion runs: main() of database.py, one step per call that reads or  *)
(* writes the file system or the store                                     *)

Runs == {1, 2}

NoOut ==
    [existing |-> -1, added |-> -1, submitted |-> << >>, branch |-> "none", error |-> "none",
     before |-> EmptyStore, base |-> EmptyStore, repeat |-> FALSE, retry |-> FALSE,
     stale |-> {}]

NoArgs == [reset |-> FALSE, dir |-> MissingDir]

NoHist == [outcome |-> "none", reset |-> FALSE, dir |-> MissingDir, base |-> EmptyStore]

Init ==
    /\ store = EmptyStore
    /\ pc = [ r \in Runs |-> "idle" ]
    /\ args = [ r \in Runs |-> NoArgs ]
    /\ chunks = [ r \in Runs |-> << >> ]
    /\ existing_ids = [ r \in Runs |-> {} ]
    /\ new_chunks = [ r \in Runs |-> << >> ]
    /\ out = [ r \in Runs |-> NoOut ]
    /\ hist = NoHist
    /\ nRuns = 0
    /\ qpc = "idle"
    /\ results = << >>
    /\ context_text = ""
    /\ sources = << >>
    /\ searched = EmptyStore
    /\ idsIn = << >>
    /\ idsOut = << >>

\* the run ends with an uncaught exception
Abort(r, err) ==
    /\ pc' = [pc EXCEPT ![r] = "failed"]
    /\ out' = [out EXCEPT ![r].error = err]

\* python database.py [--reset] is started over the source directory dir.
\* out[r].repeat, .retry, .before and .base record how this run relates to
\* the run that finished last.
Start(r, reset, dir) ==
    /\ pc[r] = "idle"
    /\ nRuns < MaxRuns
    /\ nRuns' = nRuns + 1
    /\ args' = [args EXCEPT ![r] = [reset |-> reset, dir |-> dir]]
    /\ LET retry == hist.outcome = "failed" /\ hist.dir = dir /\ hist.reset = reset
       IN  out' = [out EXCEPT ![r] =
                [NoOut EXCEPT !.before = store,
                              !.repeat = (hist.outcome = "done" /\ hist.dir = dir /\ ~reset),
                              !.retry = retry,
                              !.base = IF retry THEN hist.base ELSE store]]
    /\ pc' = [pc EXCEPT ![r] = IF reset THEN "clear" ELSE "load"]
    /\ chunks' = [chunks EXCEPT ![r] = << >>]
    /\ existing_ids' = [existing_ids EXCEPT ![r] = {}]
    /\ new_chunks' = [new_chunks EXCEPT ![r] = << >>]
    /\ UNCHANGED << store, hist, queryVars, idVars >>

\* clear_database(): shutil.rmtree(CHROMA_PATH)
clear_database(r) ==
    /\ pc[r] = "clear"
    /\ store' = EmptyStore
    /\ pc' = [pc EXCEPT ![r] = "load"]
    /\ UNCHANGED << args, chunks, existing_ids, new_chunks, out, hist, nRuns, queryVars, idVars >>

\* documents = load_documents_from_directory()
Load(r) ==
    /\ pc[r] = "load"
    /\ \E order \in Orders(args[r].dir.pdfs) :
          LET res == load_documents_from_directory(args[r].dir, order)
          IN  IF res.error # "none"
              THEN Abort(r, res.error) /\ UNCHANGED chunks
              ELSE /\ chunks' = [chunks EXCEPT ![r] = res.documents]
                   /\ pc' = [pc EXCEPT ![r] = "split"]
                   /\ UNCHANGED out
    /\ UNCHANGED << store, args, existing_ids, new_chunks, hist, nRuns, queryVars, idVars >>

\* chunks = split_documents(documents)
Split(r) ==
    /\ pc[r] = "split"
    /\ LET res == split_documents(chunks[r])
       IN  IF res.error # "none"
           THEN Abort(r, res.error) /\ UNCHANGED chunks
           ELSE /\ chunks' = [chunks EXCEPT ![r] = res.chunks]
                /\ pc' = [pc EXCEPT ![r] = "get"]
                /\ UNCHANGED out
    /\ UNCHANGED << store, args, existing_ids, new_chunks, hist, nRuns, queryVars, idVars >>

\* add_to_chroma, up to the filter: the ids are assigned, the existing ids
\* are read from the store, their number is printed, the new chunks are kept
GetExisting(r) ==
    /\ pc[r] = "get"
    /\ LET chunks_with_ids == calculate_chunk_ids(chunks[r])
           existing == GetIds(store)
           new == NewChunks(chunks_with_ids, existing)
       IN  /\ chunks' = [chunks EXCEPT ![r] = chunks_with_ids]
           /\ existing_ids' = [existing_ids EXCEPT ![r] = existing]
           /\ new_chunks' = [new_chunks EXCEPT ![r] = new]
           /\ out' = [out EXCEPT ![r].existing = Cardinality(existing)]
    /\ pc' = [pc EXCEPT ![r] = "add"]
    /\ UNCHANGED << store, args, hist, nRuns, queryVars, idVars >>

\* the store cannot be read: db.get raises
GetFails(r) ==
    /\ pc[r] = "get"
    /\ Abort(r, "StoreError")
    /\ UNCHANGED << store, args, chunks, existing_ids, new_chunks, hist, nRuns, queryVars, idVars >>

\* another run's view of the store goes stale for the ids written here
MarkStale(r, ids) ==
    [ q \in Runs |->
        IF q # r /\ pc[q] = "add"
        THEN [out[q] EXCEPT !.stale = @ \cup ids]
        ELSE out[q] ]

\* if new_chunks: db.add_documents(new_chunks, ids=new_chunk_ids); db.persist()
\* else: "No new documents to add"
AddNew(r) ==
    /\ pc[r] = "add"
    /\ IF new_chunks[r] # << >>
       THEN LET new_chunk_ids == IdsOf(new_chunks[r])
            IN  /\ store' = add_documents(store, new_chunks[r], new_chunk_ids)
                /\ out' = [MarkStale(r, Range(new_chunk_ids)) EXCEPT
                              ![r].added = Len(new_chunks[r]),
                              ![r].submitted = new_chunk_ids,
                              ![r].branch = "adding"]
       ELSE /\ store' = store
            /\ out' = [out EXCEPT ![r].branch = "no_new"]
    /\ pc' = [pc EXCEPT ![r] = "done"]
    /\ UNCHANGED << args, chunks, existing_ids, new_chunks, hist, nRuns, queryVars, idVars >>

\* the embedding service or the store fails inside db.add_documents or
\* db.persist: the first n of the submitted chunks have reached the store
AddFails(r, n) ==
    /\ pc[r] = "add"
    /\ new_chunks[r] # << >>
    /\ n \in 0..Len(new_chunks[r])
    /\ LET part == SubSeq(new_chunks[r], 1, n)
           new_chunk_ids == IdsOf(new_chunks[r])
       IN  /\ store' = add_documents(store, part, IdsOf(part))
           /\ out' = [MarkStale(r, Range(IdsOf(part))) EXCEPT
                         ![r].added = Len(new_chunks[r]),
                         ![r].submitted = new_chunk_ids,
                         ![r].branch = "adding",
                         ![r].error = "StoreError"]
    /\ pc' = [pc EXCEPT ![r] = "failed"]
    /\ UNCHANGED << args, chunks, existing_ids, new_chunks, hist, nRuns, queryVars, idVars >>

\* the process exits; the next invocation may start
Exit(r) ==
    /\ pc[r] \in {"done", "failed"}
    /\ hist' = [outcome |-> pc[r], reset |-> args[r].reset, dir |-> args[r].dir,
                base |-> out[r].base]
    /\ pc' = [pc EXCEPT ![r] = "idle"]
    /\ args' = [args EXCEPT ![r] = NoArgs]
    /\ chunks' = [chunks EXCEPT ![r] = << >>]
    /\ existing_ids' = [existing_ids EXCEPT ![r] = {}]
    /\ new_chunks' = [new_chunks EXCEPT ![r] = << >>]
    /\ out' = [out EXCEPT ![r] = NoOut]
    /\ UNCHANGED << store, nRuns, queryVars, idVars >>

StartAny(r) == \E reset \in BOOLEAN, dir \in Directories : Start(r, reset, dir)

\* how much of a batch of len chunks a failed upsert may leave behind:
\* nothing, the first chunk, or all of it (the failure is in db.persist)
PartialPrefixes(len) == {0, 1, len} \cap 0..len

AddFailsAny(r) == \E n \in PartialPrefixes(Len(new_chunks[r])) : AddFails(r, n)

\* one invocation at a time: run 1 only
Next ==
    \/ StartAny(1)
    \/ clear_database(1)
    \/ Load(1)
    \/ Split(1)
    \/ GetExisting(1)
    \/ GetFails(1)
    \/ AddNew(1)
    \/ AddFailsAny(1)
    \/ Exit(1)

Spec == Init /\ [][Next]_vars

----------------------------------------------------------------------------
(* Two ingestion runs whose steps interleave on one store *)

RaceDirs == { d \in PdfDirs : d.pdfs = Files }

StartRace(r) == \E reset \in BOOLEAN, dir \in RaceDirs : Start(r, reset, dir)

NextConc ==
    \/ \E r \in Runs : StartRace(r)
    \/ \E r \in Runs : clear_database(r)
    \/ \E r \in Runs : Load(r)
    \/ \E r \in Runs : Split(r)
    \/ \E r \in Runs : GetExisting(r)
    \/ \E r \in Runs : AddNew(r)
    \/ \E r \in Runs : Exit(r)

SpecConc == Init /\ [][NextConc]_vars

----------------------------------------------------------------------------
(* query_rag of query.py *)

Min(a, b) == IF a <= b THEN a ELSE b

\* db.similarity_search_with_score(query_text, k): the k nearest records, or
\* all of them when the store holds fewer, in an order the store decides
Rankings(db, k) ==
    { o \in [1..Min(k, Cardinality(DOMAIN db)) -> DOMAIN db] :
        \A i, j \in DOMAIN o : o[i] = o[j] => i = j }

RECURSIVE Join(_, _)
\* sep.join(texts)
Join(texts, sep) ==
    IF texts = << >> THEN ""
    ELSE IF Len(texts) = 1 THEN texts[1]
    ELSE texts[1] \o sep \o Join(Tail(texts), sep)

\* "\n\n---\n\n".join([doc.page_content for doc, _score in results])
ContextText(res) == Join([ i \in DOMAIN res |-> res[i].doc.page_content ], "\n\n---\n\n")

\* [doc.metadata.get("id", None) for doc, _score in results]
Sources(res) == [ i \in DOMAIN res |-> res[i].doc.metadata.id ]

\* query_rag(query_text): search, build the context, print the sources.
\* results[i].key is the key under which the i-th result is stored.
Query ==
    /\ qpc = "idle"
    /\ Cardinality(DOMAIN store) <= MaxStored
    /\ \E rank \in Rankings(store, TOP_K) :
          LET res == [ i \in DOMAIN rank |-> [key |-> rank[i], doc |-> store[rank[i]]] ]
          IN  /\ results' = res
              /\ context_text' = ContextText(res)
              /\ sources' = Sources(res)
    /\ searched' = store
    /\ qpc' = "printed"
    /\ UNCHANGED << ingestVars, idVars >>

\* query_rag returns and the process exits
QueryExit ==
    /\ qpc = "printed"
    /\ qpc' = "idle"
    /\ results' = << >>
    /\ context_text' = ""
    /\ sources' = << >>
    /\ searched' = EmptyStore
    /\ UNCHANGED << ingestVars, idVars >>

SessionDirs == { d \in PdfDirs : d.text = "old" }

StartSession == \E dir \in SessionDirs : Start(1, FALSE, dir)

\* one shell session: ingestion and query commands, one at a time
NextSession ==
    \/ qpc = "idle" /\ StartSession
    \/ Load(1)
    \/ Split(1)
    \/ GetExisting(1)
    \/ AddNew(1)
    \/ Exit(1)
    \/ pc[1] = "idle" /\ Query
    \/ QueryExit

SpecQuery == Init /\ [][NextSession]_vars

----------------------------------------------------------------------------
(* calculate_chunk_ids called directly on an arbitrary chunk list *)

ChunkValues == [source : Files, page : 0..(MaxPages - 1), text : {"old"}]

ChunkLists == UNION { [1..n -> ChunkValues] : n \in 0..MaxLen }

\* a caller hands a chunk list to calculate_chunk_ids and gets it back with ids
CallCalculate ==
    /\ idsIn = << >>
    /\ \E cs \in ChunkLists :
          /\ idsIn' = cs
          /\ idsOut' = calculate_chunk_ids(cs)
    /\ UNCHANGED << ingestVars, queryVars >>

\* the caller drops the list
DropList ==
    /\ idsIn # << >>
    /\ idsIn' = << >>
    /\ idsOut' = << >>
    /\ UNCHANGED << ingestVars, queryVars >>

NextIds == CallCalculate \/ DropList

SpecIds == Init /\ [][NextIds]_vars

----------------------------------------------------------------------------
(* Properties *)

Distinct(ids) == \A i, j \in DOMAIN ids : ids[i] = ids[j] => i = j

\* the ids of the batch of run r, once add_to_chroma has assigned them
BatchIds(r) == Range(IdsOf(chunks[r]))

\* the store a run without failure leaves when started on the store base
Ideal(base, reset, dir) ==
    LET b0 == IF reset THEN EmptyStore ELSE base
        order == CHOOSE o \in Orders(dir.pdfs) : TRUE
        cs == calculate_chunk_ids(
                  split_documents(load_documents_from_directory(dir, order).documents).chunks)
        first(k) == CHOOSE i \in DOMAIN cs : cs[i].id = k /\ \A j \in 1..(i - 1) : cs[j].id # k
    IN  [ k \in DOMAIN b0 \cup Range(IdsOf(cs)) |->
            IF k \in DOMAIN b0 THEN b0[k]
            ELSE [page_content |-> cs[first(k)].text,
                  metadata |-> [source |-> cs[first(k)].source, page |-> cs[first(k)].page,
                                id |-> k]] ]

\* C1: a run without --reset that follows a completed run over the same
\* source directory submits no chunk, leaves the store as it found it,
\* reports as existing the number of records the first run left, and takes
\* the "No new documents to add" branch.
C1_Idempotence ==
    \A r \in Runs :
        (pc[r] = "done" /\ out[r].repeat) =>
            /\ out[r].submitted = << >>
            /\ out[r].added = -1
            /\ store = out[r].before
            /\ out[r].existing = Cardinality(DOMAIN out[r].before)
            /\ out[r].branch = "no_new"

C1_Witness ==
    /\ pc[1] = "done"
    /\ out[1].repeat
    /\ Cardinality(DOMAIN store) >= 2
    /\ out[1].existing = Cardinality(DOMAIN store)

\* the chunks of every page key stand next to each other in cs
PageGrouped(cs) ==
    \A i, j, k \in DOMAIN cs :
        (i < j /\ j < k /\ PageId(cs[i]) = PageId(cs[k])) => PageId(cs[j]) = PageId(cs[i])

C3_DedupExact ==
    \A r \in Runs :
        /\ (pc[r] \in {"done", "failed"} /\ out[r].branch # "none") =>
              /\ existing_ids[r] =
                    DOMAIN (IF args[r].reset THEN EmptyStore ELSE out[r].before)
              /\ Range(out[r].submitted) = BatchIds(r) \ existing_ids[r]
              /\ Distinct(out[r].submitted)
        /\ pc[r] = "done" => DOMAIN store = existing_ids[r] \cup BatchIds(r)

C3_Witness ==
    /\ pc[1] = "done"
    /\ out[1].submitted # << >>
    /\ BatchIds(1) \cap existing_ids[1] # {}
    /\ existing_ids[1] \ BatchIds(1) # {}

\* C4: in every step other than the --reset deletion, every record of the
\* store stays in the store with the text and metadata it has.
C4_NeverUpdatedInPlace ==
    [][ (\A r \in Runs : pc[r] # "clear") =>
            \A id \in DOMAIN store : id \in DOMAIN store' /\ store'[id] = store[id] ]_vars

C4_Witness ==
    /\ pc[1] = "done"
    /\ ~args[1].reset
    /\ out[1].submitted # << >>
    /\ \E i \in DOMAIN chunks[1] :
          /\ chunks[1][i].id \in DOMAIN out[1].before
          /\ store[chunks[1][i].id].page_content # chunks[1][i].text

PastLoad(r) == pc[r] \in {"split", "get", "add", "done", "failed"}

LoadErrors == {"FileNotFoundError", "ValueError: Directory is empty"}

\* C5 (as claimed): the loader fails with the not-found error for a missing
\* path, with the empty-input error for every directory without a PDF file,
\* and returns the documents without raising otherwise.
C5_LoaderContract ==
    \A r \in Runs :
        PastLoad(r) =>
            LET dir == args[r].dir
            IN  /\ ~dir.exists =>
                      pc[r] = "failed" /\ out[r].error = "FileNotFoundError"
                /\ (dir.exists /\ dir.pdfs = {}) =>
                      pc[r] = "failed" /\ out[r].error = "ValueError: Directory is empty"
                /\ (dir.exists /\ dir.pdfs # {}) => out[r].error \notin LoadErrors

\* C5 (amended): the loader fails with the not-found error for a missing
\* path and with the empty-input error for a directory without any entry; a
\* directory that has entries returns one document per page of its PDF
\* files without raising, which is no document when none of the entries is
\* a PDF file.
C5_LoaderContractAmended ==
    \A r \in Runs :
        PastLoad(r) =>
            LET dir == args[r].dir
            IN  /\ ~dir.exists =>
                      pc[r] = "failed" /\ out[r].error = "FileNotFoundError"
                /\ (dir.exists /\ ListDir(dir) = {}) =>
                      pc[r] = "failed" /\ out[r].error = "ValueError: Directory is empty"
                /\ (dir.exists /\ ListDir(dir) # {}) =>
                      /\ out[r].error \notin LoadErrors
                      /\ pc[r] = "split" =>
                            /\ Len(chunks[r]) = Cardinality(dir.pdfs) * dir.pages
                            /\ \A f \in dir.pdfs, p \in 0..(dir.pages - 1) :
                                  \E i \in DOMAIN chunks[r] :
                                      chunks[r][i].source = f /\ chunks[r][i].page = p

C5_Witness ==
    /\ pc[1] = "split"
    /\ args[1].dir.exists
    /\ args[1].dir.other
    /\ args[1].dir.pdfs = {}
    /\ chunks[1] = << >>

\* every record of the store a is in the store b, unchanged
Keeps(a, b) == \A id \in DOMAIN a : id \in DOMAIN b /\ b[id] = a[id]

\* C6 (as claimed): when a run fails, with or without --reset, every record
\* stored before it is still stored; and when the same command over the same
\* directory then completes, the store is the one a run without the failure
\* would have left.
C6_FailedRunSafe ==
    \A r \in Runs :
        /\ pc[r] = "failed" => Keeps(out[r].before, store)
        /\ (pc[r] = "done" /\ out[r].retry) =>
              store = Ideal(out[r].base, args[r].reset, args[r].dir)

\* C6 (amended): when a run without --reset fails, every record stored
\* before it is still stored; a failed run with --reset has deleted them and
\* leaves at most records it submitted itself; in both cases, when the same
\* command over the same directory then completes, the store is the one a
\* run without the failure would have left.
C6_FailedRunSafeAmended ==
    \A r \in Runs :
        /\ (pc[r] = "failed" /\ ~args[r].reset) => Keeps(out[r].before, store)
        /\ (pc[r] = "failed" /\ args[r].reset) =>
              DOMAIN store \subseteq Range(out[r].submitted)
        /\ (pc[r] = "done" /\ out[r].retry) =>
              store = Ideal(out[r].base, args[r].reset, args[r].dir)

C6_Witness ==
    /\ pc[1] = "done"
    /\ out[1].retry
    /\ ~args[1].reset
    /\ out[1].before # out[1].base
    /\ out[1].submitted # << >>

\* C7: the search returns min(5, n) results of a store of n records; the
\* Sources list is the list of the keys of the retrieved records, in the
\* order in which their texts are joined into the context; the store is
\* left as the search saw it.
C7_QueryProvenance ==
    qpc = "printed" =>
        /\ Len(results) = Min(TOP_K, Cardinality(DOMAIN searched))
        /\ Len(results) <= TOP_K
        /\ Len(sources) = Len(results)
        /\ \A i \in DOMAIN results :
              /\ results[i].key \in DOMAIN searched
              /\ sources[i] = results[i].key
        /\ Distinct(sources)
        /\ context_text =
              Join([ i \in DOMAIN sources |-> searched[sources[i]].page_content ],
                   "\n\n---\n\n")
        /\ store = searched

C7_Witness ==
    /\ qpc = "printed"
    /\ Cardinality(DOMAIN store) > TOP_K
    /\ Len(sources) = TOP_K
    /\ \E i \in DOMAIN sources : i < Len(sources) /\ sources[i] # sources[i + 1]

\* C8: when the chunks of a page are the positions s..e of the list and no
\* other, their ids are page_key:0, page_key:1, ..., page_key:(e-s) in
\* order, whatever stands before s and after e.
C8_ContiguousNumbering ==
    \A s, e \in DOMAIN idsIn :
        (s <= e /\ \A i \in DOMAIN idsIn :
                      (PageId(idsIn[i]) = PageId(idsIn[s])) <=> (i \in s..e)) =>
            \A i \in s..e :
                idsOut[i].id =
                    idsIn[s].source \o ":" \o ToString(idsIn[s].page) \o ":" \o ToString(i - s)

C8_Witness ==
    /\ Len(idsOut) = 4
    /\ PageId(idsIn[2]) = PageId(idsIn[3])
    /\ PageId(idsIn[1]) # PageId(idsIn[2])
    /\ PageId(idsIn[4]) # PageId(idsIn[2])
    /\ PageId(idsIn[1]) # PageId(idsIn[4])
    /\ idsOut[3].id = PageId(idsIn[2]) \o ":1"

RECURSIVE ExpectedIndex(_, _)
\* 0 for the first chunk and for a chunk whose page key differs from that of
\* the chunk before it, one more than the index of the chunk before otherwise
ExpectedIndex(cs, i) ==
    IF i = 1 \/ cs[i].source # cs[i - 1].source \/ cs[i].page # cs[i - 1].page
    THEN 0
    ELSE ExpectedIndex(cs, i - 1) + 1

\* C9: the index of a chunk is decided by the chunk directly before it only:
\* 0 when there is none or its page key differs, the previous index plus 1
\* when the page key is the same, also when the page key occurred earlier in
\* the list.
C9_ResetOnPreviousOnly ==
    /\ Len(idsOut) = Len(idsIn)
    /\ \A i \in DOMAIN idsIn :
          idsOut[i].id =
              idsIn[i].source \o ":" \o ToString(idsIn[i].page) \o ":"
                  \o ToString(ExpectedIndex(idsIn, i))

C9_Witness ==
    /\ Len(idsOut) >= 3
    /\ \E i, j, k \in DOMAIN idsIn :
          /\ i < j /\ j < k
          /\ PageId(idsIn[i]) = PageId(idsIn[k])
          /\ PageId(idsIn[j]) # PageId(idsIn[i])
          /\ idsOut[i].id = idsOut[k].id

\* C10: a run that is about to insert submits no id it has read from the
\* store; an id it submits is in the store already only when another run has
\* inserted it after this run's read.
C10_StaleReadOnly ==
    \A r \in Runs :
        pc[r] = "add" =>
            \A id \in Range(IdsOf(new_chunks[r])) :
                /\ id \notin existing_ids[r]
                /\ id \in DOMAIN store => id \in out[r].stale

C10_Witness ==
    /\ pc[1] = "done"
    /\ pc[2] = "add"
    /\ existing_ids[1] = {}
    /\ existing_ids[2] = {}
    /\ \E id \in Range(out[1].submitted) :
          id \in Range(IdsOf(new_chunks[2])) /\ id \in DOMAIN store

====
